---- MODULE Spec2Model ----
(***************************************************************************)
(* Niri window-manager backend of cairo-dock                               *)
(* (src/implementations/cairo-dock-niri-toplevel.c).                       *)
(*                                                                         *)
(* The state is the file's static binder variables, the toplevel handles   *)
(* (proxies) the compositor has announced with their user data, the window *)
(* actors ("Window Shadows") hanging off them, and what the dock core has  *)
(* been told so far (registered backends, forwarded workspace managers,    *)
(* listeners).  Every handler of the file is one action.  The variable     *)
(* `out` holds, in order, the calls the last handler made to code outside  *)
(* the file (Wayland requests, the spawned command, warnings, calls into   *)
(* the dock core); `call` names the last handler, its inputs and result.   *)
(***************************************************************************)
EXTENDS Integers, Sequences, FiniteSets, TLC

VARIABLES
    toplevel_found, toplevel_id, toplevel_ver,      \* static, lines 49-52
    workspace_found, workspace_id, workspace_ver,
    s_ptoplevel_manager, s_pworkspace_manager,      \* static, lines 46-47
    nproxies,       \* manager proxies wl_registry_bind has created so far
    ninit,          \* calls of gldi_niri_toplevel_try_init so far
    backends,       \* descriptors given to gldi_windows_manager_register_backend
    mgrListeners,   \* serials of the manager proxies that carry toplevel_manager_listener
    wsForwarded,    \* managers given to gldi_ext_workspaces_register_manager
    destroyCb,      \* the callback handed to gldi_wayland_wm_init ("" before)
    hstate,         \* per toplevel handle: "unused", "live" or "destroyed"
    user_data,      \* per toplevel handle: the actor its listener data names (0: NULL)
    listener,       \* per toplevel handle: toplevel_handle_listener is installed
    actors,         \* the live window actors, keyed by actor identity
    call,           \* the last handler run: [op, args, ret]
    out             \* the external calls the last handler made, in order

binder == <<toplevel_found, toplevel_id, toplevel_ver,
            workspace_found, workspace_id, workspace_ver,
            s_ptoplevel_manager, s_pworkspace_manager>>
dockside == <<nproxies, ninit, backends, mgrListeners, wsForwarded, destroyCb>>
windows == <<hstate, user_data, listener, actors>>
vars == <<binder, dockside, windows, call, out>>

----------------------------------------------------------------------------
(* Bounds of the model. *)
MaxId == 2          \* registry names run over 1..MaxId
MaxVer == 4         \* advertised versions run over 1..MaxVer
MaxInits == 2       \* calls of try-init
MaxHandles == 2     \* toplevel handles the compositor announces
MaxStateLen == 2    \* entries of one state array
MaxWorkspace == 10  \* 0-based workspace indices run over 0..MaxWorkspace

(* Program constants: the values the protocol headers and the dock core give
   the names the file uses.  Only their being distinct matters below. *)
ToplevelIfaceVersion == 3       \* zwlr_foreign_toplevel_manager_v1_interface.version
WorkspaceIfaceVersion == 1      \* ext_workspace_manager_v1_interface.version
STATE_MAXIMIZED == 0            \* ZWLR_FOREIGN_TOPLEVEL_HANDLE_V1_STATE_*
STATE_MINIMIZED == 1
STATE_ACTIVATED == 2
STATE_FULLSCREEN == 3
GLDI_DESKTOP_ALL == -1

TOPLEVEL_IFACE == "zwlr_foreign_toplevel_manager_v1"
WORKSPACE_IFACE == "ext_workspace_manager_v1"
NIRI_IPC_CMD == "niri"

RegistryIds == 1..MaxId
Versions == 1..MaxVer
Interfaces == {TOPLEVEL_IFACE, WORKSPACE_IFACE, "wl_output"}
Handles == 1..MaxHandles

(* The size of screen 0, as cairo_dock_get_screen_width/height report it. *)
screen == [width |-> 1920, height |-> 1080]

(* A proxy wl_registry_bind returns: NULL, or a new object.  `serial` is the
   identity of the object (two binds never return the same object). *)
NULL == 0
NullProxy == [iface |-> "", name |-> 0, ver |-> 0, serial |-> 0]
NewProxy(iface, name, ver, serial) ==
    [iface |-> iface, name |-> name, ver |-> ver, serial |-> serial]

MIN(a, b) == IF a < b THEN a ELSE b

Ext(fn, obj, arg) == [fn |-> fn, obj |-> obj, arg |-> arg]

----------------------------------------------------------------------------
Init ==
    /\ toplevel_found = FALSE /\ toplevel_id = 0 /\ toplevel_ver = 0
    /\ workspace_found = FALSE /\ workspace_id = 0 /\ workspace_ver = 0
    /\ s_ptoplevel_manager = NullProxy
    /\ s_pworkspace_manager = NullProxy
    /\ nproxies = 0
    /\ ninit = 0
    /\ backends = <<>>
    /\ mgrListeners = {}
    /\ wsForwarded = <<>>
    /\ destroyCb = ""
    /\ hstate = [h \in Handles |-> "unused"]
    /\ user_data = [h \in Handles |-> NULL]
    /\ listener = [h \in Handles |-> FALSE]
    /\ actors = [a \in {} |-> 0]
    /\ call = [op |-> "none", args |-> <<>>, ret |-> FALSE]
    /\ out = <<>>

----------------------------------------------------------------------------
(* gldi_niri_toplevel_match_protocol, lines 298-313.  strcmp(a, b) == 0 is
   equality of the two names. *)
MatchesToplevel(interface) == interface = TOPLEVEL_IFACE

\* Mutant: the result of strcmp is used as the condition.
MatchesWorkspaceUncompared(interface) == interface # WORKSPACE_IFACE

MatchesWorkspace(interface) == interface = WORKSPACE_IFACE

gldi_niri_toplevel_match_protocol(id, interface, version) ==
    /\ IF MatchesToplevel(interface)
       THEN /\ toplevel_found' = TRUE
            /\ toplevel_id' = id
            /\ toplevel_ver' = version
            /\ UNCHANGED <<workspace_found, workspace_id, workspace_ver>>
            /\ call' = [op |-> "match_protocol", args |-> <<id, interface, version>>, ret |-> TRUE]
       ELSE IF MatchesWorkspace(interface)
       THEN /\ workspace_found' = TRUE
            /\ workspace_id' = id
            /\ workspace_ver' = version
            /\ UNCHANGED <<toplevel_found, toplevel_id, toplevel_ver>>
            /\ call' = [op |-> "match_protocol", args |-> <<id, interface, version>>, ret |-> TRUE]
       ELSE /\ UNCHANGED <<toplevel_found, toplevel_id, toplevel_ver,
                           workspace_found, workspace_id, workspace_ver>>
            /\ call' = [op |-> "match_protocol", args |-> <<id, interface, version>>, ret |-> FALSE]
    /\ out' = <<>>
    /\ UNCHANGED <<s_ptoplevel_manager, s_pworkspace_manager, dockside, windows>>

----------------------------------------------------------------------------
(* gldi_niri_toplevel_try_init, lines 315-369.  topOk and wsOk say whether
   wl_registry_bind returns an object (it returns NULL when the proxy cannot
   be created). *)
\* Mutant: either protocol is enough to go on.
EitherFound == toplevel_found \/ workspace_found

ToplevelRequired == toplevel_found                                  \* line 318

\* Mutant: the bound manager is not tested.
ManagerAssumedBound(top) == TRUE

ManagerBound(top) == top # NullProxy                                \* line 330

\* Mutant: the workspaces flag follows the advertisement, not the bind.
BackendFlagsAdvertised(ws) ==
    {"GLDI_WM_NO_VIEWPORT_OVERLAP", "GLDI_WM_GEOM_REL_TO_VIEWPORT"}
        \cup (IF workspace_found THEN {"GLDI_WM_HAVE_WORKSPACES"} ELSE {})

\* Mutant: the workspaces flag is set unconditionally.
BackendFlagsAll(ws) ==
    {"GLDI_WM_NO_VIEWPORT_OVERLAP", "GLDI_WM_GEOM_REL_TO_VIEWPORT",
     "GLDI_WM_HAVE_WORKSPACES"}

BackendFlags(ws) ==                                                 \* lines 355-356
    {"GLDI_WM_NO_VIEWPORT_OVERLAP", "GLDI_WM_GEOM_REL_TO_VIEWPORT"}
        \cup (IF ws # NullProxy THEN {"GLDI_WM_HAVE_WORKSPACES"} ELSE {})

BackendOps ==                                                       \* lines 341-352
    [get_active_window |-> "gldi_wayland_wm_get_active_window",
     move_to_nth_desktop |-> "_move_to_nth_desktop",
     show |-> "_show", close |-> "_close", minimize |-> "_minimize",
     maximize |-> "_maximize", set_fullscreen |-> "_set_fullscreen",
     set_thumbnail_area |-> "_set_thumbnail_area",
     get_transient_for |-> "_get_transient_for",
     can_minimize_maximize_close |-> "_can_minimize_maximize_close",
     pick_window |-> "gldi_wayland_wm_pick_window",
     get_supported_actions |-> "_get_supported_actions"]

Backend(ws) == [name |-> "Niri", flags |-> BackendFlags(ws), ops |-> BackendOps]

\* Mutant: the advertised version is requested as it is.
BindVersionAdvertised(advertised, supported) == advertised

BindVersion(advertised, supported) == MIN(advertised, supported)    \* lines 321, 326

gldi_niri_toplevel_try_init(topOk, wsOk) ==
    /\ ninit' = ninit + 1
    /\ UNCHANGED <<toplevel_found, toplevel_id, workspace_found, workspace_id,
                   windows>>
    /\ IF ~ToplevelRequired
       THEN /\ call' = [op |-> "try_init", args |-> <<topOk, wsOk>>, ret |-> FALSE]
            /\ out' = <<>>
            /\ UNCHANGED <<toplevel_ver, workspace_ver, s_ptoplevel_manager,
                           s_pworkspace_manager, nproxies, backends, mgrListeners,
                           wsForwarded, destroyCb>>
       ELSE LET tver == BindVersion(toplevel_ver, ToplevelIfaceVersion)
                top == IF topOk
                       THEN NewProxy(TOPLEVEL_IFACE, toplevel_id, tver, nproxies + 1)
                       ELSE NullProxy
                n1 == IF topOk THEN nproxies + 1 ELSE nproxies
                wver == IF workspace_found
                        THEN BindVersion(workspace_ver, WorkspaceIfaceVersion)
                        ELSE workspace_ver
                ws == IF workspace_found
                      THEN IF wsOk
                           THEN NewProxy(WORKSPACE_IFACE, workspace_id, wver, n1 + 1)
                           ELSE NullProxy
                      ELSE s_pworkspace_manager
                n2 == IF workspace_found /\ wsOk THEN n1 + 1 ELSE n1
                binds == <<Ext("wl_registry_bind", toplevel_id,
                               <<TOPLEVEL_IFACE, tver, top.serial>>)>>
                         \o (IF workspace_found
                             THEN <<Ext("wl_registry_bind", workspace_id,
                                        <<WORKSPACE_IFACE, wver, ws.serial>>)>>
                             ELSE <<>>)
            IN  /\ toplevel_ver' = tver
                /\ workspace_ver' = wver
                /\ s_ptoplevel_manager' = top
                /\ s_pworkspace_manager' = ws
                /\ nproxies' = n2
                /\ IF ManagerBound(top)
                   THEN /\ mgrListeners' = mgrListeners \cup {top.serial}
                        /\ wsForwarded' = IF ws # NullProxy
                                          THEN Append(wsForwarded, ws)
                                          ELSE wsForwarded
                        /\ backends' = Append(backends, Backend(ws))
                        /\ destroyCb' = "_destroy_handle"
                        /\ out' = binds
                              \o <<Ext("zwlr_foreign_toplevel_manager_v1_add_listener",
                                       top.serial, "toplevel_manager_listener")>>
                              \o (IF ws # NullProxy
                                  THEN <<Ext("gldi_ext_workspaces_register_manager",
                                             ws.serial, <<>>)>>
                                  ELSE <<>>)
                              \o <<Ext("gldi_windows_manager_register_backend", 0,
                                       Backend(ws)),
                                   Ext("gldi_wayland_wm_init", 0, "_destroy_handle")>>
                        /\ call' = [op |-> "try_init", args |-> <<topOk, wsOk>>, ret |-> TRUE]
                   ELSE /\ UNCHANGED <<mgrListeners, wsForwarded, backends, destroyCb>>
                        /\ out' = binds
                        /\ call' = [op |-> "try_init", args |-> <<topOk, wsOk>>, ret |-> FALSE]

----------------------------------------------------------------------------
(* The window actors of the dock core (cairo-dock-wayland-wm), which this
   file drives through gldi_wayland_wm_*.  An actor is identified with the
   handle it was created for. *)
NoFlags == [activated |-> FALSE, maximized |-> FALSE,
            minimized |-> FALSE, fullscreen |-> FALSE]

\* gldi_wayland_wm_new_toplevel: a new, zeroed actor holding the handle.
gldi_wayland_wm_new_toplevel(handle) ==
    [handle |-> handle, activated |-> FALSE, maximized |-> FALSE,
     minimized |-> FALSE, fullscreen |-> FALSE, title |-> "", app_id |-> "",
     parent |-> NULL, iNumDesktop |-> 0,
     windowGeometry |-> [x |-> 0, y |-> 0, width |-> 0, height |-> 0]]

\* The commit notification of gldi_wayland_wm_done.
WmDone(wactor) == <<Ext("gldi_wayland_wm_done", wactor, <<>>)>>

\* gldi_wayland_wm_<field>_changed(wactor, value, notify): record the value in
\* the actor; announce it at once only when notify is set.
WmChanged(as, wactor, field, value) ==
    IF wactor \in DOMAIN as THEN [as EXCEPT ![wactor][field] = value] ELSE as

WmNotify(wactor, notify) == IF notify THEN WmDone(wactor) ELSE <<>>

----------------------------------------------------------------------------
(* _toplevel_state_cb, lines 201-226. *)
StateValues == {STATE_MAXIMIZED, STATE_MINIMIZED, STATE_ACTIVATED,
                STATE_FULLSCREEN, STATE_FULLSCREEN + 1}
StateArrays == UNION {[1..n -> StateValues] : n \in 0..MaxStateLen}

\* Mutant: the four locals start from the actor's current flags.
InitialFlagsKept(wactor) ==
    IF wactor \in DOMAIN actors
    THEN [activated |-> actors[wactor].activated, maximized |-> actors[wactor].maximized,
          minimized |-> actors[wactor].minimized, fullscreen |-> actors[wactor].fullscreen]
    ELSE NoFlags

InitialFlags(wactor) == NoFlags                                     \* lines 206-209

StateSwitch(acc, v) ==                                              \* lines 214-219
    CASE v = STATE_ACTIVATED -> [acc EXCEPT !.activated = TRUE]
      [] v = STATE_MAXIMIZED -> [acc EXCEPT !.maximized = TRUE]
      [] v = STATE_MINIMIZED -> [acc EXCEPT !.minimized = TRUE]
      [] v = STATE_FULLSCREEN -> [acc EXCEPT !.fullscreen = TRUE]
      [] OTHER -> acc

RECURSIVE StateLoop(_, _, _)
StateLoop(stdata, i, acc) ==                                        \* line 213
    IF i > Len(stdata) THEN acc
    ELSE StateLoop(stdata, i + 1, StateSwitch(acc, stdata[i]))

_toplevel_state_cb(data, handle, state) ==
    IF data = NULL
    THEN /\ out' = <<>>
         /\ UNCHANGED windows
    ELSE LET f == StateLoop(state, 1, InitialFlags(data))
             a1 == WmChanged(actors, data, "activated", f.activated)
             a2 == WmChanged(a1, data, "maximized", f.maximized)
             a3 == WmChanged(a2, data, "minimized", f.minimized)
             a4 == WmChanged(a3, data, "fullscreen", f.fullscreen)
         IN  /\ actors' = a4
             /\ out' = WmNotify(data, FALSE) \o WmNotify(data, FALSE)
                       \o WmNotify(data, FALSE) \o WmNotify(data, FALSE)
             /\ UNCHANGED <<hstate, user_data, listener>>

(* _toplevel_title_cb, lines 228-231; _toplevel_app_id_cb, lines 233-236. *)
\* Mutant: the title is announced at once.
_toplevel_title_cb_notifies(data, handle, title) ==
    /\ actors' = WmChanged(actors, data, "title", title)
    /\ out' = WmNotify(data, TRUE)
    /\ UNCHANGED <<hstate, user_data, listener>>

_toplevel_title_cb(data, handle, title) ==
    /\ actors' = WmChanged(actors, data, "title", title)
    /\ out' = WmNotify(data, FALSE)
    /\ UNCHANGED <<hstate, user_data, listener>>

_toplevel_app_id_cb(data, handle, app_id) ==
    /\ actors' = WmChanged(actors, data, "app_id", app_id)
    /\ out' = WmNotify(data, FALSE)
    /\ UNCHANGED <<hstate, user_data, listener>>

(* _toplevel_parent_cb, lines 238-242: wactor->parent = parent.  The data of
   a subscribed handle is always its live actor. *)
_toplevel_parent_cb(data, handle, parent) ==
    /\ data \in DOMAIN actors
    /\ actors' = [actors EXCEPT ![data].parent = parent]
    /\ out' = <<>>
    /\ UNCHANGED <<hstate, user_data, listener>>

(* _toplevel_output_enter_cb, _toplevel_output_leave_cb, lines 244-252. *)
\* Mutant: the output a window enters becomes its desktop.
_toplevel_output_enter_cb_narrows(data, handle, output) ==
    /\ actors' = WmChanged(actors, data, "iNumDesktop", output)
    /\ out' = <<>>
    /\ UNCHANGED <<hstate, user_data, listener>>

_toplevel_output_enter_cb(data, handle, output) ==
    /\ out' = <<>>
    /\ UNCHANGED windows

\* Mutant: a window that leaves an output is dropped.
_toplevel_output_leave_cb_drops(data, handle, output) ==
    /\ actors' = [a \in DOMAIN actors \ {data} |-> actors[a]]
    /\ out' = <<>>
    /\ UNCHANGED <<hstate, user_data, listener>>

_toplevel_output_leave_cb(data, handle, output) ==
    /\ out' = <<>>
    /\ UNCHANGED windows

(* _destroy_handle, lines 291-293: zwlr_foreign_toplevel_handle_v1_destroy on
   the handle it is given.  hs is the state of every handle. *)
_destroy_handle(hs, handle) == [hs EXCEPT ![handle] = "destroyed"]

\* What the core's stored callback does with a handle (nothing if none is stored).
DestroyVia(cb, hs, handle) ==
    IF cb = "_destroy_handle" THEN _destroy_handle(hs, handle) ELSE hs

\* gldi_wayland_wm_done: one commit notification for the actor.
gldi_wayland_wm_done(data, handle) ==
    /\ out' = WmDone(data)
    /\ UNCHANGED windows

\* gldi_wayland_wm_closed: the actor is released and its removal announced,
\* then the actor's handle goes to the callback gldi_wayland_wm_init was given.
\* A destroyed handle has no user data and no listener any more.
gldi_wayland_wm_closed(data, handle) ==
    /\ actors' = [a \in DOMAIN actors \ {data} |-> actors[a]]
    /\ hstate' = DestroyVia(destroyCb, hstate, handle)
    /\ user_data' = [h \in Handles |->
                        IF hstate'[h] = "destroyed" THEN NULL ELSE user_data[h]]
    /\ listener' = [h \in Handles |-> listener[h] /\ hstate'[h] # "destroyed"]
    /\ out' = <<Ext("gldi_wayland_wm_closed", data, <<>>)>>
              \o [i \in 1..Cardinality({h \in Handles : hstate'[h] # hstate[h]}) |->
                     Ext("zwlr_foreign_toplevel_handle_v1_destroy",
                         CHOOSE h \in Handles :
                             /\ hstate'[h] # hstate[h]
                             /\ Cardinality({g \in Handles :
                                    hstate'[g] # hstate[g] /\ g < h}) = i - 1,
                         <<>>)]

----------------------------------------------------------------------------
(* toplevel_handle_listener, lines 254-263, and the dispatch of one event of
   a handle to the callback in its slot, with the handle's listener data. *)
\* Mutant: the closed slot holds the done callback.
toplevel_handle_listener_closed_as_done ==
    [title |-> "_toplevel_title_cb",
     app_id |-> "_toplevel_app_id_cb",
     output_enter |-> "_toplevel_output_enter_cb",
     output_leave |-> "_toplevel_output_leave_cb",
     state |-> "_toplevel_state_cb",
     done |-> "gldi_wayland_wm_done",
     closed |-> "gldi_wayland_wm_done",
     parent |-> "_toplevel_parent_cb"]

toplevel_handle_listener ==
    [title |-> "_toplevel_title_cb",
     app_id |-> "_toplevel_app_id_cb",
     output_enter |-> "_toplevel_output_enter_cb",
     output_leave |-> "_toplevel_output_leave_cb",
     state |-> "_toplevel_state_cb",
     done |-> "gldi_wayland_wm_done",
     closed |-> "gldi_wayland_wm_closed",
     parent |-> "_toplevel_parent_cb"]

Invoke(fn, data, handle, arg) ==
    CASE fn = "_toplevel_title_cb" -> _toplevel_title_cb(data, handle, arg)
      [] fn = "_toplevel_app_id_cb" -> _toplevel_app_id_cb(data, handle, arg)
      [] fn = "_toplevel_output_enter_cb" -> _toplevel_output_enter_cb(data, handle, arg)
      [] fn = "_toplevel_output_leave_cb" -> _toplevel_output_leave_cb(data, handle, arg)
      [] fn = "_toplevel_state_cb" -> _toplevel_state_cb(data, handle, arg)
      [] fn = "gldi_wayland_wm_done" -> gldi_wayland_wm_done(data, handle)
      [] fn = "gldi_wayland_wm_closed" -> gldi_wayland_wm_closed(data, handle)
      [] fn = "_toplevel_parent_cb" -> _toplevel_parent_cb(data, handle, arg)

Deliver(slot, handle, arg) ==
    /\ hstate[handle] = "live"
    /\ listener[handle]
    /\ Invoke(toplevel_handle_listener[slot], user_data[handle], handle, arg)
    /\ call' = [op |-> slot, args |-> <<handle, arg>>, ret |-> FALSE]
    /\ UNCHANGED <<binder, dockside>>

HandleTitle(handle, title) ==
    /\ handle \in Handles
    /\ Deliver("title", handle, title)

HandleAppId(handle, app_id) ==
    /\ handle \in Handles
    /\ Deliver("app_id", handle, app_id)

HandleOutputEnter(handle) ==
    /\ handle \in Handles
    /\ Deliver("output_enter", handle, 0)

HandleOutputLeave(handle) ==
    /\ handle \in Handles
    /\ Deliver("output_leave", handle, 0)

HandleState(handle, state) ==
    /\ handle \in Handles
    /\ Deliver("state", handle, state)

HandleDone(handle) ==
    /\ handle \in Handles
    /\ Deliver("done", handle, 0)

HandleClosed(handle) ==
    /\ handle \in Handles
    /\ Deliver("closed", handle, 0)

HandleParent(handle, parent) ==
    /\ handle \in Handles
    /\ Deliver("parent", handle, parent)

----------------------------------------------------------------------------
(* _toplevel_manager_toplevel, lines 265-284, run for a handle the compositor
   announces on a manager that carries toplevel_manager_listener. *)
\* Mutant: the desktop of the new actor is left as the core created it.
InitialActorNoDesktop(base) ==
    [base EXCEPT !.windowGeometry = [x |-> screen.width \div 2,
                                     y |-> screen.height \div 2,
                                     width |-> 1, height |-> 1]]

InitialActor(base) ==                                               \* lines 274-281
    [base EXCEPT !.iNumDesktop = GLDI_DESKTOP_ALL,
                 !.windowGeometry = [x |-> screen.width \div 2,
                                     y |-> screen.height \div 2,
                                     width |-> 1, height |-> 1]]

_toplevel_manager_toplevel(handle) ==
    /\ mgrListeners # {}
    /\ hstate[handle] = "unused"
    /\ LET wactor == handle
       IN  /\ actors' = [a \in DOMAIN actors \cup {wactor} |->
                            IF a = wactor
                            THEN InitialActor(gldi_wayland_wm_new_toplevel(handle))
                            ELSE actors[a]]
           /\ hstate' = [hstate EXCEPT ![handle] = "live"]
           /\ user_data' = [user_data EXCEPT ![handle] = wactor]
           /\ listener' = [listener EXCEPT ![handle] = TRUE]
           /\ out' = <<Ext("gldi_wayland_wm_new_toplevel", handle, <<>>),
                       Ext("zwlr_foreign_toplevel_handle_v1_add_listener", handle,
                           "toplevel_handle_listener")>>
    /\ call' = [op |-> "toplevel", args |-> <<handle>>, ret |-> FALSE]
    /\ UNCHANGED <<binder, dockside>>

(* toplevel_manager_listener.finished, line 288: cd_message. *)
ManagerFinished ==
    /\ mgrListeners # {}
    /\ out' = <<Ext("cd_message", 0, <<>>)>>
    /\ call' = [op |-> "finished", args |-> <<>>, ret |-> FALSE]
    /\ UNCHANGED <<binder, dockside, windows>>

----------------------------------------------------------------------------
(* g_strdup_printf("%d", n): the decimal digits of n, with a sign if n < 0. *)
Digit(d) ==
    CASE d = 0 -> "0" [] d = 1 -> "1" [] d = 2 -> "2" [] d = 3 -> "3"
      [] d = 4 -> "4" [] d = 5 -> "5" [] d = 6 -> "6" [] d = 7 -> "7"
      [] d = 8 -> "8" [] d = 9 -> "9"

RECURSIVE FormatD(_)
FormatD(n) ==
    IF n < 0 THEN "-" \o FormatD(-n)
    ELSE IF n < 10 THEN Digit(n)
    ELSE FormatD(n \div 10) \o Digit(n % 10)

(* _niri_ipc_action, lines 62-79.  arg is "" for a NULL argument; spawned says
   whether g_spawn_command_line_async could launch the command.  The result
   is the external calls made. *)
IpcCommand(action, arg) ==                                          \* lines 65-68
    IF arg # ""
    THEN NIRI_IPC_CMD \o " msg action " \o action \o " " \o arg
    ELSE NIRI_IPC_CMD \o " msg action " \o action

\* Mutant: a command that could not be launched is launched again.
_niri_ipc_action_retries(action, arg, spawned) ==
    LET command == IpcCommand(action, arg)
    IN  <<Ext("g_spawn_command_line_async", 0, command)>>
        \o (IF ~spawned
            THEN <<Ext("cd_warning", 0, command),
                   Ext("g_spawn_command_line_async", 0, command)>>
            ELSE <<>>)

_niri_ipc_action(action, arg, spawned) ==
    LET command == IpcCommand(action, arg)
    IN  <<Ext("g_spawn_command_line_async", 0, command)>>
        \o (IF ~spawned THEN <<Ext("cd_warning", 0, command)>> ELSE <<>>)

(* _niri_move_window_to_workspace, lines 88-106.  The result is the external
   calls made. *)
\* Mutant: the index is sent as the dock counts it.
WorkspaceArgZeroBased(workspace_idx) == FormatD(workspace_idx)

WorkspaceArg(workspace_idx) == FormatD(workspace_idx + 1)           \* line 103

_niri_move_window_to_workspace(wactor, workspace_idx, spawned) ==
    IF wactor = NULL \/ actors[wactor].handle = NULL
    THEN <<>>
    ELSE <<Ext("zwlr_foreign_toplevel_handle_v1_activate",
               actors[wactor].handle, "wl_seat")>>
         \o _niri_ipc_action("move-window-to-workspace",
                             WorkspaceArg(workspace_idx), spawned)

(* The operations of the registered backend.  The dock calls them on a live
   actor once a backend is registered; none of them touches the state. *)
Command(op, args, calls) ==
    /\ backends # <<>>
    /\ out' = calls
    /\ call' = [op |-> op, args |-> args, ret |-> FALSE]
    /\ UNCHANGED <<binder, dockside, windows>>

(* _move_to_nth_desktop, lines 152-157. *)
_move_to_nth_desktop(actor, iNumDesktop, spawned) ==
    /\ actor \in DOMAIN actors \cup {NULL}
    /\ Command("move_to_nth_desktop", <<actor, iNumDesktop, spawned>>,
               _niri_move_window_to_workspace(actor, iNumDesktop, spawned))

(* _show, _close, _minimize, _maximize, _set_fullscreen, lines 111-150. *)
_show(actor) ==
    /\ actor \in DOMAIN actors
    /\ Command("show", <<actor>>,
               <<Ext("zwlr_foreign_toplevel_handle_v1_activate",
                     actors[actor].handle, "wl_seat")>>)

_close(actor) ==
    /\ actor \in DOMAIN actors
    /\ Command("close", <<actor>>,
               <<Ext("zwlr_foreign_toplevel_handle_v1_close",
                     actors[actor].handle, <<>>)>>)

_minimize(actor) ==
    /\ actor \in DOMAIN actors
    /\ Command("minimize", <<actor>>,
               <<Ext("zwlr_foreign_toplevel_handle_v1_set_minimized",
                     actors[actor].handle, <<>>)>>)

\* Mutant: the two requests of _maximize are exchanged.
_maximize_inverted(actor, bMaximize) ==
    /\ actor \in DOMAIN actors
    /\ Command("maximize", <<actor, bMaximize>>,
               IF bMaximize
               THEN <<Ext("zwlr_foreign_toplevel_handle_v1_unset_maximized",
                          actors[actor].handle, <<>>)>>
               ELSE <<Ext("zwlr_foreign_toplevel_handle_v1_set_maximized",
                          actors[actor].handle, <<>>)>>)

_maximize(actor, bMaximize) ==
    /\ actor \in DOMAIN actors
    /\ Command("maximize", <<actor, bMaximize>>,
               IF bMaximize
               THEN <<Ext("zwlr_foreign_toplevel_handle_v1_set_maximized",
                          actors[actor].handle, <<>>)>>
               ELSE <<Ext("zwlr_foreign_toplevel_handle_v1_unset_maximized",
                          actors[actor].handle, <<>>)>>)

_set_fullscreen(actor, bFullScreen) ==
    /\ actor \in DOMAIN actors
    /\ Command("set_fullscreen", <<actor, bFullScreen>>,
               IF bFullScreen
               THEN <<Ext("zwlr_foreign_toplevel_handle_v1_set_fullscreen",
                          actors[actor].handle, "NULL")>>
               ELSE <<Ext("zwlr_foreign_toplevel_handle_v1_unset_fullscreen",
                          actors[actor].handle, <<>>)>>)

(* _get_transient_for, lines 159-166.  The parent field holds the handle the
   last parent event carried, whatever has happened to that handle since.
   Reading the user data of a handle that has been destroyed is a read of
   freed memory: it yields whatever pointer the memory holds then - NULL,
   the released actor, or the actor of another window.  `freed` is that
   value. *)
zwlr_foreign_toplevel_handle_v1_get_user_data(handle, freed) ==
    IF hstate[handle] = "destroyed" THEN freed ELSE user_data[handle]

_get_transient_for(actor, freed) ==
    /\ backends # <<>>
    /\ actor \in DOMAIN actors
    /\ LET parent == actors[actor].parent
           pactor == IF parent = NULL
                     THEN NULL
                     ELSE zwlr_foreign_toplevel_handle_v1_get_user_data(parent, freed)
       IN  call' = [op |-> "get_transient_for", args |-> <<actor>>, ret |-> pactor]
    /\ out' = <<>>
    /\ UNCHANGED <<binder, dockside, windows>>

(* _set_thumbnail_area, lines 168-180.  A container is named by a number
   (0: NULL); gldi_container_get_gdk_window and
   gdk_wayland_window_get_wl_surface give the window of a container and the
   surface of a window (0: NULL).  Container 1 has no window, the window of
   container 2 has no surface, the window of container 3 has surface 7. *)
Containers == 1..3
gldi_container_get_gdk_window(pContainer) ==
    CASE pContainer = 2 -> 1
      [] pContainer = 3 -> 2
      [] OTHER -> NULL
gdk_wayland_window_get_wl_surface(window) ==
    CASE window = 2 -> 7
      [] OTHER -> NULL

\* Mutant: the surface is not tested before it is used.
_set_thumbnail_area_any_surface(actor, pContainer, x, y, w, h) ==
    /\ actor \in DOMAIN actors \cup {NULL}
    /\ Command("set_thumbnail_area", <<actor, pContainer, x, y, w, h>>,
               IF ~(actor # NULL /\ pContainer # NULL) THEN <<>>
               ELSE LET window == gldi_container_get_gdk_window(pContainer)
                    IN  IF window = NULL THEN <<>>
                        ELSE <<Ext("zwlr_foreign_toplevel_handle_v1_set_rectangle",
                                   actors[actor].handle,
                                   <<gdk_wayland_window_get_wl_surface(window),
                                     x, y, w, h>>)>>)

_set_thumbnail_area(actor, pContainer, x, y, w, h) ==
    /\ actor \in DOMAIN actors \cup {NULL}
    /\ Command("set_thumbnail_area", <<actor, pContainer, x, y, w, h>>,
               IF ~(actor # NULL /\ pContainer # NULL) THEN <<>>
               ELSE LET window == gldi_container_get_gdk_window(pContainer)
                    IN  IF window = NULL THEN <<>>
                        ELSE LET surface == gdk_wayland_window_get_wl_surface(window)
                             IN  IF surface = NULL THEN <<>>
                                 ELSE <<Ext("zwlr_foreign_toplevel_handle_v1_set_rectangle",
                                            actors[actor].handle,
                                            <<surface, x, y, w, h>>)>>)

----------------------------------------------------------------------------
(* The inputs of the environment. *)
Titles == {"t1", "t2"}
AppIds == {"a1", "a2"}
Workspaces == 0..MaxWorkspace
BindResults == BOOLEAN \X BOOLEAN
FewStates == {<<>>, <<STATE_ACTIVATED>>}
Actors == Handles
\* What the memory of a destroyed handle may hold where its user data was.
FreedValues == {NULL} \cup Handles
\* The rectangles the dock gives as thumbnail regions: <<x, y, w, h>>.
Rectangles == {<<0, 0, 1, 1>>, <<10, 20, 30, 40>>}

MatchProtocol(id, interface, version) ==
    gldi_niri_toplevel_match_protocol(id, interface, version)

TryInit(topOk, wsOk) ==
    /\ ninit < MaxInits
    /\ gldi_niri_toplevel_try_init(topOk, wsOk)

\* The compositor names as parent another handle it has announced, or none.
Parents(handle) == {NULL} \cup {g \in Handles \ {handle} : hstate[g] = "live"}

(* Every handler with every input. *)
Next ==
    \/ \E id \in RegistryIds, i \in Interfaces, v \in Versions : MatchProtocol(id, i, v)
    \/ \E b \in BindResults : TryInit(b[1], b[2])
    \/ \E h \in Handles : _toplevel_manager_toplevel(h)
    \/ ManagerFinished
    \/ \E h \in Handles, t \in Titles : HandleTitle(h, t)
    \/ \E h \in Handles, a \in AppIds : HandleAppId(h, a)
    \/ \E h \in Handles, s \in StateArrays : HandleState(h, s)
    \/ \E h \in Handles : \E p \in Parents(h) : HandleParent(h, p)
    \/ \E h \in Handles : HandleOutputEnter(h)
    \/ \E h \in Handles : HandleOutputLeave(h)
    \/ \E h \in Handles : HandleDone(h)
    \/ \E h \in Handles : HandleClosed(h)
    \/ \E a \in Actors \cup {NULL}, i \in Workspaces, ok \in BOOLEAN :
           _move_to_nth_desktop(a, i, ok)
    \/ \E a \in Actors : _show(a)
    \/ \E a \in Actors : _close(a)
    \/ \E a \in Actors : _minimize(a)
    \/ \E a \in Actors, b \in BOOLEAN : _maximize(a, b)
    \/ \E a \in Actors, b \in BOOLEAN : _set_fullscreen(a, b)
    \/ \E a \in Actors \cup {NULL}, c \in Containers \cup {NULL}, r \in Rectangles :
           _set_thumbnail_area(a, c, r[1], r[2], r[3], r[4])
    \/ \E a \in Actors, f \in FreedValues : _get_transient_for(a, f)

Spec == Init /\ [][Next]_vars

(* The binder under advertisements and try-init calls in any order, with
   every bind result; the compositor announces one window once a manager
   listens. *)
NextBinder ==
    \/ \E id \in RegistryIds, i \in Interfaces : MatchProtocol(id, i, ToplevelIfaceVersion)
    \/ \E b \in BindResults : TryInit(b[1], b[2])
    \/ _toplevel_manager_toplevel(1)

SpecBinder == Init /\ [][NextBinder]_vars

(* The registry with every advertisement, before and after the one call of
   try-init, with every bind result. *)
NextRegistry ==
    \/ \E id \in RegistryIds, i \in Interfaces, v \in Versions : MatchProtocol(id, i, v)
    \/ \E b \in BindResults :
           /\ ninit = 0
           /\ TryInit(b[1], b[2])
    \/ _toplevel_manager_toplevel(1)

SpecRegistry == Init /\ [][NextRegistry]_vars

(* A compositor that advertises the toplevel protocol (and the workspace
   protocol) once, at the supported version: the startup of the binder. *)
Startup ==
    \/ \E i \in {TOPLEVEL_IFACE, WORKSPACE_IFACE} :
           /\ ninit = 0
           /\ MatchProtocol(1, i, ToplevelIfaceVersion)
    \/ /\ ninit = 0
       /\ TryInit(TRUE, TRUE)

(* The state events of that compositor: every state array for the first
   window, a few for the others. *)
NextState ==
    \/ Startup
    \/ \E h \in Handles : _toplevel_manager_toplevel(h)
    \/ \E s \in StateArrays : HandleState(1, s)
    \/ \E h \in Handles, s \in FewStates : HandleState(h, s)
    \/ \E h \in Handles : HandleDone(h)
    \/ \E h \in Handles : HandleClosed(h)

SpecState == Init /\ [][NextState]_vars

(* Every window event of that compositor: every title and application id
   for the first window, one title for the others, and few state arrays. *)
NextEvents ==
    \/ Startup
    \/ \E h \in Handles : _toplevel_manager_toplevel(h)
    \/ ManagerFinished
    \/ \E t \in Titles : HandleTitle(1, t)
    \/ \E h \in Handles : HandleTitle(h, "t1")
    \/ \E a \in AppIds : HandleAppId(1, a)
    \/ \E h \in Handles, s \in FewStates : HandleState(h, s)
    \/ \E h \in Handles : \E p \in Parents(h) : HandleParent(h, p)
    \/ \E h \in Handles : HandleOutputEnter(h)
    \/ \E h \in Handles : HandleOutputLeave(h)
    \/ \E h \in Handles : HandleDone(h)
    \/ \E h \in Handles : HandleClosed(h)

SpecEvents == Init /\ [][NextEvents]_vars

(* The commands of the dock on the windows of that compositor. *)
NextCommands ==
    \/ Startup
    \/ \E h \in Handles : _toplevel_manager_toplevel(h)
    \/ \E h \in Handles, s \in FewStates : HandleState(h, s)
    \/ \E h \in Handles : \E p \in Parents(h) : HandleParent(h, p)
    \/ \E h \in Handles : HandleClosed(h)
    \/ \E a \in Actors \cup {NULL}, i \in Workspaces, ok \in BOOLEAN :
           _move_to_nth_desktop(a, i, ok)
    \/ \E a \in Actors : _show(a)
    \/ \E a \in Actors : _close(a)
    \/ \E a \in Actors : _minimize(a)
    \/ \E a \in Actors, b \in BOOLEAN : _maximize(a, b)
    \/ \E a \in Actors, b \in BOOLEAN : _set_fullscreen(a, b)
    \/ \E a \in Actors \cup {NULL}, c \in Containers \cup {NULL}, r \in Rectangles :
           _set_thumbnail_area(a, c, r[1], r[2], r[3], r[4])
    \/ \E a \in Actors, f \in FreedValues : _get_transient_for(a, f)

SpecCommands == Init /\ [][NextCommands]_vars

----------------------------------------------------------------------------
(* Properties. *)

IsIn(v, array) == \E i \in 1..Len(array) : array[i] = v

\* The calls of `out` other than diagnostics.
Requests(calls) == SelectSeq(calls, LAMBDA e : e.fn # "cd_warning")

\* The decimal numerals, written out: Numerals[n + 1] is n.
Numerals == <<"0", "1", "2", "3", "4", "5", "6", "7", "8", "9", "10",
              "11", "12", "13", "14", "15">>

(* C1: after a state event of a handle, the four booleans of its window are
   exactly the membership of the four flags in the array just received:
   a flag that is not in it is false whatever came before, and values that
   are none of the four flags change nothing. *)
C1_StateIsLatestArray ==
    call.op = "state" =>
        LET h == call.args[1]
            st == call.args[2]
        IN  /\ user_data[h] \in DOMAIN actors
            /\ actors[user_data[h]].activated = IsIn(STATE_ACTIVATED, st)
            /\ actors[user_data[h]].maximized = IsIn(STATE_MAXIMIZED, st)
            /\ actors[user_data[h]].minimized = IsIn(STATE_MINIMIZED, st)
            /\ actors[user_data[h]].fullscreen = IsIn(STATE_FULLSCREEN, st)

\* A state event carrying one flag and one unknown value has been processed.
C1_Witness ==
    /\ call.op = "state"
    /\ call.args = <<1, <<STATE_ACTIVATED, STATE_FULLSCREEN + 1>>>>
    /\ actors[1].activated
    /\ ~actors[1].maximized /\ ~actors[1].minimized /\ ~actors[1].fullscreen

(* C2: right after a new-toplevel event of a handle - the state in which the
   handle's listener is subscribed and no event of the handle has been
   processed - the handle has a window shadow on all desktops whose
   geometry is 1 wide and 1 high. *)
C2_NewToplevelDefaults ==
    call.op = "toplevel" =>
        LET h == call.args[1]
        IN  /\ listener[h]
            /\ hstate[h] = "live"
            /\ user_data[h] \in DOMAIN actors
            /\ actors[user_data[h]].handle = h
            /\ actors[user_data[h]].iNumDesktop = GLDI_DESKTOP_ALL
            /\ actors[user_data[h]].windowGeometry.width = 1
            /\ actors[user_data[h]].windowGeometry.height = 1

\* A second window has just been announced while the first one is tracked.
C2_Witness ==
    /\ call.op = "toplevel"
    /\ call.args = <<2>>
    /\ listener[2]
    /\ 1 \in DOMAIN actors
    /\ 2 \in DOMAIN actors

(* C3: a closed event of a handle removes that handle's shadow and leaves
   every other shadow as it was, field for field; and a handle that has been
   closed never has a shadow again. *)
C3_ClosedRemovesOnlyItsShadow ==
    [][ /\ call'.op = "closed" =>
              LET h == call'.args[1]
              IN  /\ user_data[h] \notin DOMAIN actors'
                  /\ user_data'[h] = NULL
                  /\ \A g \in DOMAIN actors \ {user_data[h]} :
                         g \in DOMAIN actors' /\ actors'[g] = actors[g]
        /\ \A h \in Handles :
              hstate[h] = "destroyed" =>
                  /\ hstate'[h] = "destroyed"
                  /\ user_data'[h] = NULL
                  /\ h \notin DOMAIN actors' ]_vars

\* The first window has been closed while the second, with a title, a state
\* and the first as parent, is still tracked.
C3_Witness ==
    /\ call.op = "closed"
    /\ call.args[1] = 1
    /\ 1 \notin DOMAIN actors
    /\ 2 \in DOMAIN actors
    /\ actors[2].title = "t1"
    /\ actors[2].activated
    /\ actors[2].parent = 1

(* C4: move-to-workspace of a shadow to the 0-based index i issues one
   activate request on the shadow's handle and then one command, "niri msg
   action move-window-to-workspace" with the decimal numeral of i + 1, and
   no other request or command. *)
C4_MoveIsActivateThenCommand ==
    (call.op = "move_to_nth_desktop" /\ call.args[1] # NULL) =>
        LET a == call.args[1]
            i == call.args[2]
            r == Requests(out)
        IN  /\ Len(r) = 2
            /\ r[1].fn = "zwlr_foreign_toplevel_handle_v1_activate"
            /\ r[1].obj = actors[a].handle
            /\ r[2].fn = "g_spawn_command_line_async"
            /\ r[2].arg = "niri msg action move-window-to-workspace "
                              \o Numerals[(i + 1) + 1]
            /\ out[1] = r[1]
            /\ out[2] = r[2]

\* The second window has been moved to the workspace of index 9.
C4_Witness ==
    /\ call.op = "move_to_nth_desktop"
    /\ call.args = <<2, 9, TRUE>>
    /\ Len(out) = 2
    /\ out[2].arg = "niri msg action move-window-to-workspace 10"

\* The external calls of the last handler that are calls of fn.
CallsOf(fn) == {i \in 1..Len(out) : out[i].fn = fn}

\* The last handler bound the toplevel manager to an object.
BoundToplevelManager ==
    \E i \in CallsOf("wl_registry_bind") :
        out[i].arg[1] = TOPLEVEL_IFACE /\ out[i].arg[3] # 0

HasWorkspacesFlag(backend) == "GLDI_WM_HAVE_WORKSPACES" \in backend.flags

(* C5, as stated: with the toplevel protocol advertised and the workspace
   protocol never advertised, try-init succeeds, no registered descriptor
   carries the has-workspaces flag, no workspace manager is forwarded and
   the toplevel manager listens. *)
C5_AsStated ==
    (toplevel_found /\ ~workspace_found /\ call.op = "try_init") =>
        /\ call.ret
        /\ s_ptoplevel_manager.serial \in mgrListeners
        /\ wsForwarded = <<>>
        /\ \A i \in 1..Len(backends) : ~HasWorkspacesFlag(backends[i])

(* C5, amended: with the workspace protocol never advertised, no workspace
   manager is bound or forwarded and no registered descriptor carries the
   has-workspaces flag; with the toplevel protocol advertised, a try-init
   whose toplevel bind yields an object succeeds, registers a descriptor and
   leaves the bound manager listening, and one whose bind yields none fails;
   a new-toplevel event then creates a shadow. *)
C5_NoWorkspaceProtocol ==
    ~workspace_found =>
        /\ s_pworkspace_manager = NullProxy
        /\ wsForwarded = <<>>
        /\ \A i \in 1..Len(backends) : ~HasWorkspacesFlag(backends[i])
        /\ (toplevel_found /\ call.op = "try_init") =>
               /\ call.ret = call.args[1]
               /\ call.ret =>
                      /\ s_ptoplevel_manager # NullProxy
                      /\ s_ptoplevel_manager.serial \in mgrListeners
                      /\ CallsOf("gldi_windows_manager_register_backend") # {}
                      /\ backends # <<>>
        /\ call.op = "toplevel" =>
               /\ mgrListeners # {}
               /\ listener[call.args[1]]
               /\ user_data[call.args[1]] \in DOMAIN actors

\* Without the workspace protocol, try-init has succeeded and a window that
\* was then announced has its shadow.
C5_Witness ==
    /\ ~workspace_found
    /\ toplevel_found
    /\ Len(backends) = 1
    /\ ~HasWorkspacesFlag(backends[1])
    /\ call.op = "toplevel"
    /\ 1 \in DOMAIN actors

(* C6: as long as the toplevel protocol has not been advertised, every
   try-init call fails without an external call, no descriptor is
   registered, no protocol object is bound and no listener is installed. *)
C6_NoToplevelProtocol ==
    ~toplevel_found =>
        /\ backends = <<>>
        /\ nproxies = 0
        /\ s_ptoplevel_manager = NullProxy
        /\ s_pworkspace_manager = NullProxy
        /\ mgrListeners = {}
        /\ wsForwarded = <<>>
        /\ \A h \in Handles : ~listener[h]
        /\ call.op = "try_init" => (~call.ret /\ out = <<>>)

\* try-init has been called twice with only the workspace protocol advertised.
C6_Witness ==
    /\ ~toplevel_found
    /\ workspace_found
    /\ call.op = "try_init"
    /\ ninit = 2

(* C7: try-init returns TRUE exactly when, in that call, the toplevel manager
   was bound to an object, its listener installed and the descriptor
   registered; when the toplevel protocol was advertised and the bind yields
   no object, it returns FALSE, registers nothing and forwards no workspace
   manager. *)
C7_TryInitResult ==
    call.op = "try_init" =>
        LET listened == CallsOf("zwlr_foreign_toplevel_manager_v1_add_listener") # {}
            registered == CallsOf("gldi_windows_manager_register_backend") # {}
            forwarded == CallsOf("gldi_ext_workspaces_register_manager") # {}
        IN  /\ call.ret <=> (BoundToplevelManager /\ listened /\ registered)
            /\ call.ret => s_ptoplevel_manager.serial \in mgrListeners
            /\ (toplevel_found /\ ~BoundToplevelManager) =>
                   (~call.ret /\ ~listened /\ ~registered /\ ~forwarded)

\* The toplevel bind has yielded no object while the workspace bind yielded one.
C7_Witness ==
    /\ call.op = "try_init"
    /\ toplevel_found
    /\ ~call.ret
    /\ s_ptoplevel_manager = NullProxy
    /\ s_pworkspace_manager # NullProxy
    /\ backends = <<>>

(* C8: over any sequence of match-protocol and try-init calls the descriptor
   is registered at most once, and exactly once if a try-init succeeded. *)
C8_RegisteredOnce ==
    /\ Len(backends) <= 1
    /\ mgrListeners # {} => Len(backends) = 1

(* C9: once a try-init call has bound a protocol object, no later step
   changes the bound managers or the id, version or found-flag of either
   capability record. *)
C9_BinderFrozen ==
    [][nproxies > 0 => UNCHANGED binder]_vars

(* C10: match-protocol returns TRUE exactly for the two interface names; on
   TRUE it sets the found-flag, the id and the advertised version of the
   matching kind's record and leaves the other kind's record as it was; on
   FALSE it leaves both records as they were. *)
C10_MatchProtocol ==
    [][call'.op = "match_protocol" =>
          LET id == call'.args[1]
              interface == call'.args[2]
              version == call'.args[3]
          IN  /\ call'.ret <=> interface \in {TOPLEVEL_IFACE, WORKSPACE_IFACE}
              /\ interface = TOPLEVEL_IFACE =>
                     /\ toplevel_found' /\ toplevel_id' = id /\ toplevel_ver' = version
                     /\ UNCHANGED <<workspace_found, workspace_id, workspace_ver>>
              /\ interface = WORKSPACE_IFACE =>
                     /\ workspace_found' /\ workspace_id' = id /\ workspace_ver' = version
                     /\ UNCHANGED <<toplevel_found, toplevel_id, toplevel_ver>>
              /\ ~call'.ret =>
                     UNCHANGED <<toplevel_found, toplevel_id, toplevel_ver,
                                 workspace_found, workspace_id, workspace_ver>> ]_vars

\* The workspace protocol has been matched after the toplevel protocol, under
\* another id and version.
C10_Witness ==
    /\ call.op = "match_protocol"
    /\ call.args = <<2, WORKSPACE_IFACE, 1>>
    /\ call.ret
    /\ toplevel_found /\ toplevel_id = 1 /\ toplevel_ver = 4
    /\ workspace_found /\ workspace_id = 2 /\ workspace_ver = 1

----------------------------------------------------------------------------
\* The bind requests of a sequence of external calls for one interface.
BindsOf(calls, interface) ==
    SelectSeq(calls, LAMBDA e : e.fn = "wl_registry_bind" /\ e.arg[1] = interface)

(* C11: a try-init call binds each kind it binds with the id recorded for
   that kind and with the smaller of the recorded advertised version and the
   version this build supports; and the recorded id and version of a kind
   are always those of one advertisement: a match of the kind records the id
   and the version of that one call together, and no other step before the
   bind changes either. *)
C11_BindUsesRecordedAdvertisement ==
    [][ /\ call'.op = "try_init" =>
              /\ \A i \in 1..Len(BindsOf(out', TOPLEVEL_IFACE)) :
                     LET b == BindsOf(out', TOPLEVEL_IFACE)[i]
                     IN  /\ b.obj = toplevel_id
                         /\ b.arg[2] = (IF toplevel_ver < ToplevelIfaceVersion
                                        THEN toplevel_ver ELSE ToplevelIfaceVersion)
              /\ \A i \in 1..Len(BindsOf(out', WORKSPACE_IFACE)) :
                     LET b == BindsOf(out', WORKSPACE_IFACE)[i]
                     IN  /\ b.obj = workspace_id
                         /\ b.arg[2] = (IF workspace_ver < WorkspaceIfaceVersion
                                        THEN workspace_ver ELSE WorkspaceIfaceVersion)
              /\ Len(BindsOf(out', TOPLEVEL_IFACE)) = (IF toplevel_found THEN 1 ELSE 0)
              /\ Len(BindsOf(out', WORKSPACE_IFACE)) =
                     (IF toplevel_found /\ workspace_found THEN 1 ELSE 0)
        /\ (call'.op = "match_protocol" /\ call'.args[2] = TOPLEVEL_IFACE) =>
              <<toplevel_id', toplevel_ver'>> = <<call'.args[1], call'.args[3]>>
        /\ (call'.op = "match_protocol" /\ call'.args[2] = WORKSPACE_IFACE) =>
              <<workspace_id', workspace_ver'>> = <<call'.args[1], call'.args[3]>>
        /\ ~(call'.op = "match_protocol" /\ call'.args[2] = TOPLEVEL_IFACE) =>
              (ninit' = 0 => UNCHANGED <<toplevel_id, toplevel_ver>>)
        /\ ~(call'.op = "match_protocol" /\ call'.args[2] = WORKSPACE_IFACE) =>
              (ninit' = 0 => UNCHANGED <<workspace_id, workspace_ver>>) ]_vars

\* Both kinds have been bound, the toplevel kind under the second id at a
\* version below the supported one and the workspace kind under the first id.
C11_Witness ==
    /\ call.op = "try_init"
    /\ Len(out) >= 2
    /\ out[1] = Ext("wl_registry_bind", 2, <<TOPLEVEL_IFACE, 2, 1>>)
    /\ out[2] = Ext("wl_registry_bind", 1, <<WORKSPACE_IFACE, WorkspaceIfaceVersion, 2>>)

----------------------------------------------------------------------------
(* The window events of that compositor together with the dock's moves of a
   window to the first workspaces. *)
NextDesktop ==
    \/ NextEvents
    \/ \E a \in Actors, i \in 0..1 : _move_to_nth_desktop(a, i, TRUE)

SpecDesktop == Init /\ [][NextDesktop]_vars

(* C12: a shadow is created on all desktops, and no step changes the desktop
   of a shadow that exists before and after it, except possibly a
   move-to-workspace command on that very shadow; in particular no title,
   app-id, state, parent, output-enter, output-leave, done or
   manager-finished event changes it. *)
C12_DesktopOnlyByMove ==
    [][\A a \in DOMAIN actors' :
          IF a \in DOMAIN actors
          THEN \/ call'.op = "move_to_nth_desktop" /\ call'.args[1] = a
               \/ actors'[a].iNumDesktop = actors[a].iNumDesktop
          ELSE actors'[a].iNumDesktop = GLDI_DESKTOP_ALL]_vars

\* The first window has had a title, an application id, a state and a parent,
\* and an output-enter event has just been processed for it.
C12_Witness ==
    /\ call.op = "output_enter"
    /\ call.args[1] = 1
    /\ 1 \in DOMAIN actors
    /\ actors[1].title = "t2"
    /\ actors[1].app_id = "a2"
    /\ actors[1].activated
    /\ actors[1].parent = 2
    /\ actors[1].iNumDesktop = GLDI_DESKTOP_ALL

----------------------------------------------------------------------------
(* C13: a title, app-id or state event of a handle writes its value over the
   shadow's previous one (so the shadow holds the events applied in the
   order received), changes nothing else and announces nothing; a done
   event changes no shadow and makes exactly one commit notification, for
   the handle's shadow as the events since the previous done left it. *)
C13_EventsRecordedDoneCommits ==
    [][LET op == call'.op
           h == call'.args[1]
           a == user_data[h]
           others == \A b \in DOMAIN actors \ {a} :
                         b \in DOMAIN actors' /\ actors'[b] = actors[b]
       IN  /\ op \in {"title", "app_id", "state", "done"} =>
                  /\ a \in DOMAIN actors
                  /\ DOMAIN actors' = DOMAIN actors
                  /\ others
           /\ op = "title" =>
                  /\ actors'[a] = [actors[a] EXCEPT !.title = call'.args[2]]
                  /\ out' = <<>>
           /\ op = "app_id" =>
                  /\ actors'[a] = [actors[a] EXCEPT !.app_id = call'.args[2]]
                  /\ out' = <<>>
           /\ op = "state" =>
                  /\ actors'[a] =
                         [actors[a] EXCEPT
                             !.activated = IsIn(STATE_ACTIVATED, call'.args[2]),
                             !.maximized = IsIn(STATE_MAXIMIZED, call'.args[2]),
                             !.minimized = IsIn(STATE_MINIMIZED, call'.args[2]),
                             !.fullscreen = IsIn(STATE_FULLSCREEN, call'.args[2])]
                  /\ out' = <<>>
           /\ op = "done" =>
                  /\ actors'[a] = actors[a]
                  /\ out' = <<Ext("gldi_wayland_wm_done", a, <<>>)>> ]_vars

\* A done event of the first window has been processed after a second title,
\* an application id and a state were received for it.
C13_Witness ==
    /\ call.op = "done"
    /\ call.args[1] = 1
    /\ out = <<Ext("gldi_wayland_wm_done", 1, <<>>)>>
    /\ actors[1].title = "t2"
    /\ actors[1].app_id = "a1"
    /\ actors[1].activated

----------------------------------------------------------------------------
\* The request each simple command is to send, by the command's inputs.
RequestKind(op, args) ==
    CASE op = "show" -> "zwlr_foreign_toplevel_handle_v1_activate"
      [] op = "close" -> "zwlr_foreign_toplevel_handle_v1_close"
      [] op = "minimize" -> "zwlr_foreign_toplevel_handle_v1_set_minimized"
      [] op = "maximize" -> IF args[2]
                            THEN "zwlr_foreign_toplevel_handle_v1_set_maximized"
                            ELSE "zwlr_foreign_toplevel_handle_v1_unset_maximized"
      [] op = "set_fullscreen" ->
             IF args[2]
             THEN "zwlr_foreign_toplevel_handle_v1_set_fullscreen"
             ELSE "zwlr_foreign_toplevel_handle_v1_unset_fullscreen"

(* C14: show, close, minimize, set-maximized(b) and set-fullscreen(b) each
   make exactly one external call, the request of their kind on the handle
   of the shadow they are given (set-fullscreen with a null output), and
   change no shadow; a shadow disappears only in a closed event and its four
   state booleans change only in a state event. *)
C14_CommandsOnlyRequest ==
    [][ /\ call'.op \in {"show", "close", "minimize", "maximize", "set_fullscreen"} =>
              LET a == call'.args[1]
              IN  /\ a \in DOMAIN actors
                  /\ Len(out') = 1
                  /\ out'[1].fn = RequestKind(call'.op, call'.args)
                  /\ out'[1].obj = actors[a].handle
                  /\ (call'.op = "set_fullscreen" /\ call'.args[2]) =>
                         out'[1].arg = "NULL"
                  /\ UNCHANGED windows
        /\ \A a \in DOMAIN actors :
              /\ a \notin DOMAIN actors' => call'.op = "closed"
              /\ (/\ a \in DOMAIN actors'
                  /\ <<actors'[a].activated, actors'[a].maximized,
                       actors'[a].minimized, actors'[a].fullscreen>>
                     # <<actors[a].activated, actors[a].maximized,
                         actors[a].minimized, actors[a].fullscreen>>)
                 => call'.op = "state" ]_vars

\* The second window, not fullscreen, has been asked to go fullscreen.
C14_Witness ==
    /\ call.op = "set_fullscreen"
    /\ call.args = <<2, TRUE>>
    /\ out = <<Ext("zwlr_foreign_toplevel_handle_v1_set_fullscreen", 2, "NULL")>>
    /\ 2 \in DOMAIN actors
    /\ ~actors[2].fullscreen

----------------------------------------------------------------------------
(* C15: set-thumbnail-region makes no external call when the shadow or the
   container is absent, or the container has no window, or the window has no
   surface; otherwise it makes exactly one, a set-rectangle request on the
   shadow's handle with that surface and the x, y, w, h it was given.  In
   both cases no shadow changes and nothing is reported. *)
C15_ThumbnailRegion ==
    [][call'.op = "set_thumbnail_area" =>
          LET a == call'.args[1]
              c == call'.args[2]
              window == gldi_container_get_gdk_window(c)
              surface == gdk_wayland_window_get_wl_surface(window)
              resolvable == a # NULL /\ c # NULL /\ window # NULL /\ surface # NULL
          IN  /\ ~resolvable => out' = <<>>
              /\ resolvable =>
                     /\ Len(out') = 1
                     /\ out'[1].fn = "zwlr_foreign_toplevel_handle_v1_set_rectangle"
                     /\ out'[1].obj = actors[a].handle
                     /\ out'[1].arg = <<surface, call'.args[3], call'.args[4],
                                        call'.args[5], call'.args[6]>>
              /\ UNCHANGED <<windows, binder>> ]_vars

\* The thumbnail region of the first window has been set on the surface of
\* the container that has one.
C15_Witness ==
    /\ call.op = "set_thumbnail_area"
    /\ call.args = <<1, 3, 10, 20, 30, 40>>
    /\ out = <<Ext("zwlr_foreign_toplevel_handle_v1_set_rectangle", 1,
                   <<7, 10, 20, 30, 40>>)>>

----------------------------------------------------------------------------
\* How many of the external calls are calls of fn.
Count(calls, fn) == Len(SelectSeq(calls, LAMBDA e : e.fn = fn))

(* C16: a move-to-workspace whose command cannot be launched has still made
   its one activate request first, has tried the launch once only, has
   reported exactly one warning and nothing else, and has changed no shadow
   and no binder variable; one whose command is launched ends with the
   launch, with no warning and no further call. *)
C16_LaunchFailureWarnsOnce ==
    [][(call'.op = "move_to_nth_desktop" /\ call'.args[1] # NULL) =>
          LET a == call'.args[1]
              spawned == call'.args[3]
          IN  /\ out'[1] = Ext("zwlr_foreign_toplevel_handle_v1_activate",
                               actors[a].handle, "wl_seat")
              /\ Count(out', "zwlr_foreign_toplevel_handle_v1_activate") = 1
              /\ out'[2].fn = "g_spawn_command_line_async"
              /\ Count(out', "g_spawn_command_line_async") = 1
              /\ Count(out', "cd_warning") = (IF spawned THEN 0 ELSE 1)
              /\ Len(out') = (IF spawned THEN 2 ELSE 3)
              /\ UNCHANGED <<windows, binder, dockside>> ]_vars

\* The command of a move of the first window could not be launched.
C16_Witness ==
    /\ call.op = "move_to_nth_desktop"
    /\ call.args = <<1, 0, FALSE>>
    /\ Len(out) = 3
    /\ out[2].fn = "g_spawn_command_line_async"
    /\ out[3].fn = "cd_warning"
    /\ 1 \in DOMAIN actors

----------------------------------------------------------------------------
(* C17: get-parent makes no external call and changes no shadow; it returns
   none when the shadow's latest parent event carried no handle (or there
   was no parent event), and otherwise the shadow associated with the handle
   the latest parent event carried - none if that handle has no shadow. *)
C17_PureLookup ==
    call.op = "get_transient_for" =>
        LET a == call.args[1]
            p == actors[a].parent
        IN  /\ out = <<>>
            /\ p = NULL => call.ret = NULL
            /\ p # NULL => call.ret = user_data[p]

(* C20: get-parent returns none or a shadow that exists; in particular it
   returns none once the handle of the latest parent event has been closed. *)
C20_ParentNeverRemoved ==
    call.op = "get_transient_for" =>
        /\ call.ret = NULL \/ call.ret \in DOMAIN actors
        /\ LET p == actors[call.args[1]].parent
           IN  (p # NULL /\ hstate[p] = "destroyed") => call.ret = NULL

----------------------------------------------------------------------------
(* C18: a try-init call that registers a descriptor registers one with the
   has-workspaces flag set exactly when the workspace manager is bound to an
   object, and exactly then has it forwarded that object, once, to the
   workspace collaborator; the two other flags are set in every registered
   descriptor; and no object is ever forwarded twice.  In particular a
   workspace bind that yields no object gives a descriptor without the flag
   and forwards nothing. *)
C18_WorkspacesFlagIffForwarded ==
    /\ (call.op = "try_init" /\ call.ret) =>
           LET reg == CallsOf("gldi_windows_manager_register_backend")
               fwd == CallsOf("gldi_ext_workspaces_register_manager")
               bound == s_pworkspace_manager # NullProxy
           IN  /\ Cardinality(reg) = 1
               /\ \A i \in reg :
                      /\ out[i].arg = backends[Len(backends)]
                      /\ HasWorkspacesFlag(out[i].arg) <=> bound
                      /\ {"GLDI_WM_NO_VIEWPORT_OVERLAP",
                          "GLDI_WM_GEOM_REL_TO_VIEWPORT"} \subseteq out[i].arg.flags
               /\ bound <=> (fwd # {})
               /\ Cardinality(fwd) <= 1
               /\ \A i \in fwd : out[i].obj = s_pworkspace_manager.serial
               /\ bound => workspace_found
    /\ \A i, j \in 1..Len(wsForwarded) :
           wsForwarded[i].serial = wsForwarded[j].serial => i = j
    /\ \A i \in 1..Len(wsForwarded) : wsForwarded[i] # NullProxy

\* The workspace protocol was advertised, its bind has yielded no object and
\* the descriptor has been registered with the two unconditional flags only.
C18_Witness ==
    /\ call.op = "try_init"
    /\ call.ret
    /\ call.args = <<TRUE, FALSE>>
    /\ workspace_found
    /\ s_pworkspace_manager = NullProxy
    /\ wsForwarded = <<>>
    /\ backends[Len(backends)].flags =
           {"GLDI_WM_NO_VIEWPORT_OVERLAP", "GLDI_WM_GEOM_REL_TO_VIEWPORT"}

----------------------------------------------------------------------------
(* C19: an output-enter, an output-leave or a manager-finished event changes
   no shadow, no handle, no binder variable and nothing the dock core was
   given, and makes no external call other than a log message: no request,
   no command, no notification, no bind.  The shadows that exist at a
   finished event exist after it. *)
C19_IgnoredEvents ==
    [][call'.op \in {"output_enter", "output_leave", "finished"} =>
          /\ UNCHANGED <<windows, binder, dockside>>
          /\ \A i \in 1..Len(out') : out'[i].fn = "cd_message"
          /\ call'.op # "finished" => out' = <<>> ]_vars

\* The manager has finished while two windows are tracked, one with a title.
C19_Witness ==
    /\ call.op = "finished"
    /\ DOMAIN actors = {1, 2}
    /\ actors[1].title = "t1"
    /\ actors[2].parent = 1
    /\ ninit = 1
    /\ Len(backends) = 1

====
